---------------------------- MODULE Spec2Model ----------------------------
(***************************************************************************)
(* A model of src/src/ExpoClient.ts: the Expo push client.                 *)
(*                                                                         *)
(*   SpecChunk    chunkPushNotifications applied to bounded message lists  *)
(*   SpecRequest  requestAsync applied to bounded responses                *)
(*   SpecSend     one call of sendPushNotificationsAsync, every response   *)
(*   Spec         NumCalls concurrent calls on one client instance         *)
(*   FairSpec     the concurrent calls under the client's scheduling       *)
(*   SpecReceipts a getPushNotificationReceiptsAsync call beside them      *)
(*   SpecAbort    the concurrent calls with callers that give up           *)
(*                                                                         *)
(* The limiter (p-limit) and the retry loop (p-retry) are libraries: the   *)
(* model gives them the behaviour of their interfaces, as the client uses  *)
(* them at lines 35-39 and 70-86.                                          *)
(*                                                                         *)
(* Encoding of JavaScript values:                                          *)
(*   - an optional value is a sequence: <<>> is undefined, <<x>> is x;     *)
(*   - message.to is [isArray, tokens]: a scalar recipient is              *)
(*     isArray = FALSE with exactly one token, a list recipient is         *)
(*     isArray = TRUE with the list of its tokens;                         *)
(*   - the non-recipient fields of a message are one opaque field, title;  *)
(*   - a JSON value is [type, ...]; the text of a response body is the     *)
(*     string TLC prints for it.                                           *)
(***************************************************************************)
EXTENDS Integers, Sequences, FiniteSets, TLC

VARIABLES
    messages,   \* chunkPushNotifications: the input message list
    chunks,     \* chunkPushNotifications: the returned list of chunks
    chunkPc,    \* "input" before the call, "done" after it
    response,   \* requestAsync: what fetch gave
    outcome,    \* requestAsync: what it returned or threw
    requestPc,  \* "input" before the call, "done" after it
    options,    \* constructor: options.maxConcurrentRequests
    concurrency,   \* the limiter: the limit it was made with
    activeCount,   \* the limiter: the units it is running
    queue,         \* the limiter: the units that wait, oldest first
    pc,            \* per send call: idle, queued, fetching, backoff, returned, thrown
    callMessages,  \* per send call: its argument
    attempts,      \* per send call: the attempts promiseRetry has started
    lastResponse,  \* per send call: what its last fetch gave
    callResult,    \* per send call: what the call returned or threw
    waiting,       \* the send calls handed to the limiter and not yet run, in
                   \* the order of their submission
    receiptPc,       \* getPushNotificationReceiptsAsync: idle, fetching, returned, thrown
    receiptFetches,  \* getPushNotificationReceiptsAsync: the calls of fetch it has made
    receiptResult,   \* getPushNotificationReceiptsAsync: what it returned or threw
    aborted          \* the send calls whose caller has given up (timeout or abort)

chunkVars == <<messages, chunks, chunkPc>>
requestVars == <<response, outcome, requestPc>>
sendVars == <<options, concurrency, activeCount, queue, pc, callMessages, attempts,
              lastResponse, callResult, waiting>>
receiptVars == <<receiptPc, receiptFetches, receiptResult>>
otherVars == <<chunkVars, requestVars, receiptVars, aborted>>
vars == <<chunkVars, requestVars, sendVars, receiptVars, aborted>>

(***************************************************************************)
(* Program constants and bounds                                            *)
(***************************************************************************)
PUSH_NOTIFICATION_CHUNK_LIMIT == 100

DEFAULT_CONCURRENT_REQUEST_LIMIT == 6

\* REQUEST_RETRY_OPTIONS.retries
REQUEST_RETRY_OPTIONS_retries == 2

\* the send calls issued on the client instance
NumCalls == 3

\* the longest message list handed to chunkPushNotifications
MaxMsgs == 3

\* the longest errors list of a response body
MaxErrors == 2

\* the longest data list of a response body
MaxTickets == 3

(***************************************************************************)
(* Helpers on sequences                                                    *)
(***************************************************************************)
RECURSIVE Flatten(_)
Flatten(ss) == IF ss = <<>> THEN <<>> ELSE Head(ss) \o Flatten(Tail(ss))

RECURSIVE SumSeq(_)
SumSeq(ns) == IF ns = <<>> THEN 0 ELSE Head(ns) + SumSeq(Tail(ns))

(***************************************************************************)
(* Messages                                                                *)
(***************************************************************************)
ScalarTo(token) == [isArray |-> FALSE, tokens |-> <<token>>]

ListTo(tokens) == [isArray |-> TRUE, tokens |-> tokens]

\* Array.isArray(message.to)
IsArrayTo(message) == message.to.isArray

(***************************************************************************)
(* Expo._getActualMessageCount                                             *)
(***************************************************************************)
CountOfMessage(message) ==
    IF IsArrayTo(message) THEN Len(message.to.tokens) ELSE 1

_getActualMessageCount(msgs) ==
    SumSeq([i \in 1..Len(msgs) |-> CountOfMessage(msgs[i])])

(***************************************************************************)
(* Expo.chunkPushNotifications                                             *)
(* The loop state st is [chunks, chunk, chunkMessagesCount].               *)
(***************************************************************************)
ChunkStart == [chunks |-> <<>>, chunk |-> <<>>, chunkMessagesCount |-> 0]

\* chunkMessagesCount >= PUSH_NOTIFICATION_CHUNK_LIMIT (both tests of it)
CapReached_off_by_one(count) == count > PUSH_NOTIFICATION_CHUNK_LIMIT

CapReached(count) == count >= PUSH_NOTIFICATION_CHUNK_LIMIT

\* chunks.push(chunk); chunk = []; chunkMessagesCount = 0
CloseChunk(st, chunk) ==
    [chunks |-> Append(st.chunks, chunk), chunk |-> <<>>, chunkMessagesCount |-> 0]

\* { ...message, to: partialTo }
Fragment_bare(message, partialTo) == [title |-> 0, to |-> ListTo(partialTo)]

Fragment(message, partialTo) == [message EXCEPT !.to = ListTo(partialTo)]

\* the body of the loop over message.to, for recipient i; s is [st, partialTo]
RecipientStep(message, i, s) ==
    LET pushed == Append(s.partialTo, message.to.tokens[i])
        count == s.st.chunkMessagesCount + 1
    IN  IF CapReached(count)
        THEN [st |-> CloseChunk(s.st, Append(s.st.chunk, Fragment(message, pushed))),
              partialTo |-> <<>>]
        ELSE [st |-> [s.st EXCEPT !.chunkMessagesCount = count], partialTo |-> pushed]

\* for (const recipient of message.to) { ... }: RecipientStep for the recipients
\* lo..hi in order.  The range is halved, and the state after the first half is
\* bound as a value, so that the evaluation stays shallow.
RECURSIVE ForRecipients(_, _, _, _)
ForRecipients(message, lo, hi, s) ==
    IF lo > hi THEN s
    ELSE IF lo = hi THEN RecipientStep(message, lo, s)
    ELSE LET mid == (lo + hi) \div 2
         IN  CHOOSE r \in {ForRecipients(message, mid + 1, hi, left) :
                           left \in {ForRecipients(message, lo, mid, s)}} : TRUE

\* if (partialTo.length) chunk.push({ ...message, to: partialTo })
AddRemainingTo_dropped(message, s) == s.st

AddRemainingTo(message, s) ==
    IF Len(s.partialTo) # 0
    THEN [s.st EXCEPT !.chunk = Append(@, Fragment(message, s.partialTo))]
    ELSE s.st

\* the if/else on Array.isArray(message.to)
AddMessage(message, st) ==
    IF IsArrayTo(message)
    THEN AddRemainingTo(message,
             ForRecipients(message, 1, Len(message.to.tokens),
                           [st |-> st, partialTo |-> <<>>]))
    ELSE [st EXCEPT !.chunk = Append(@, message),
                    !.chunkMessagesCount = @ + 1]

\* the test that ends the body of the loop over the messages
CapAfterMessage(st) ==
    IF CapReached(st.chunkMessagesCount) THEN CloseChunk(st, st.chunk) ELSE st

\* for (const message of messages) { ... }, from message i on
RECURSIVE ForMessages(_, _, _)
ForMessages(msgs, i, st) ==
    IF i > Len(msgs) THEN st
    ELSE ForMessages(msgs, i + 1, CapAfterMessage(AddMessage(msgs[i], st)))

\* if (chunkMessagesCount) chunks.push(chunk)
AddRemainingChunk_always(st) == Append(st.chunks, st.chunk)

AddRemainingChunk(st) ==
    IF st.chunkMessagesCount # 0 THEN Append(st.chunks, st.chunk) ELSE st.chunks

chunkPushNotifications(msgs) == AddRemainingChunk(ForMessages(msgs, 1, ChunkStart))

(***************************************************************************)
(* Responses.  fetch either rejects (a transport failure) or gives a       *)
(* status and a body; a body is text that JSON.parse rejects or the JSON   *)
(* value it parses to.                                                     *)
(***************************************************************************)
Undefined == <<>>

Some(x) == <<x>>

JsonNull == [type |-> "null", items |-> <<>>]

JsonObject == [type |-> "object", items |-> <<>>]

JsonArray(items) == [type |-> "array", items |-> items]

\* an entry of an errors list: null, or {message, code, details?, stack?}
NullEntry ==
    [type |-> "null", message |-> "", code |-> "", details |-> Undefined, stack |-> Undefined]

ErrorEntry(message, code, details, stack) ==
    [type |-> "object", message |-> message, code |-> code, details |-> details, stack |-> stack]

ErrorEntries ==
    {NullEntry,
     ErrorEntry("bad", "X", Undefined, Undefined),
     ErrorEntry("rate", "Y", Some("d"), Some("s"))}

\* an element of a data list: a push ticket
Tickets ==
    {[status |-> "ok", id |-> Some("r1"), message |-> Undefined, error |-> Undefined],
     [status |-> "error", id |-> Undefined, message |-> Some("gone"),
      error |-> Some("DeviceNotRegistered")]}

SeqsUpTo(S, n) == UNION {[1..k -> S] : k \in 0..n}

\* the errors field of a body: absent, null, an object or a list of entries
ErrorsFields ==
    {Undefined, Some(JsonNull), Some(JsonObject)}
        \cup {Some(JsonArray(es)) : es \in SeqsUpTo(ErrorEntries, MaxErrors)}

\* the data field of a body: absent, null, an object or a list of tickets
DataFields ==
    {Undefined, Some(JsonNull), Some(JsonObject)}
        \cup {Some(JsonArray(ts)) : ts \in SeqsUpTo(Tickets, MaxTickets)}

\* what JSON.parse gives: null, a number, or an object with errors and data
JsonBody(type, errors, data) == [type |-> type, errors |-> errors, data |-> data]

Bodies ==
    {[parses |-> FALSE, json |-> JsonBody("text", Undefined, Undefined)],
     [parses |-> TRUE, json |-> JsonBody("null", Undefined, Undefined)],
     [parses |-> TRUE, json |-> JsonBody("number", Undefined, Undefined)]}
        \cup {[parses |-> TRUE, json |-> JsonBody("object", e, d)] :
                  e \in ErrorsFields, d \in DataFields}

Statuses == {200, 429, 500}

NoBody == [parses |-> FALSE, json |-> JsonBody("none", Undefined, Undefined)]

FetchRejected == [fetched |-> FALSE, status |-> 0, body |-> NoBody]

Responses ==
    {FetchRejected} \cup {[fetched |-> TRUE, status |-> st, body |-> b] : st \in Statuses, b \in Bodies}

\* await response.text()
TextOf(body) == ToString(body.json)

\* the truthiness of a JSON field: undefined and null are falsy, an object and
\* an array (an empty one too) are truthy
Truthy(field) == field # Undefined /\ field[1].type # "null"

\* Array.isArray
IsArray(field) == field # Undefined /\ field[1].type = "array"

(***************************************************************************)
(* Errors: an Error object with the fields the client attaches to it       *)
(***************************************************************************)
NewError(name, message) ==
    [name |-> name, message |-> message, statusCode |-> Undefined, code |-> Undefined,
     details |-> Undefined, serverStack |-> Undefined, others |-> Undefined,
     errorText |-> Undefined, errorData |-> Undefined, data |-> Undefined]

\* what a function did: it returned value, or it threw value
Returned(value) == [threw |-> FALSE, value |-> value]

Threw(error) == [threw |-> TRUE, value |-> error]

\* the TypeError of reading a property of null or undefined
PropertyOfNull(property) ==
    NewError("TypeError", <<"Cannot read properties of null or undefined, reading ", property>>)

\* the error fetch rejects with
FetchFailed == NewError("TypeError", <<"fetch failed">>)

(***************************************************************************)
(* Expo.getErrorFromResultError                                            *)
(***************************************************************************)
getErrorFromResultError(errorData) ==
    IF errorData.type = "null"
    THEN Threw(PropertyOfNull("message"))
    ELSE Returned([NewError("Error", <<errorData.message>>) EXCEPT
                       !.code = Some(errorData.code),
                       !.details = errorData.details,
                       !.serverStack = errorData.stack])

(***************************************************************************)
(* Expo.getErrorFromResult                                                 *)
(***************************************************************************)
\* !result.errors || !result.errors[0]
NoFirstError(result) ==
    \/ ~Truthy(result.errors)
    \/ ~IsArray(result.errors)
    \/ Len(result.errors[1].items) = 0
    \/ result.errors[1].items[1].type = "null"

\* error.statusCode = response.status
WithStatusCode_unset(error, resp) == error

WithStatusCode(error, resp) == [error EXCEPT !.statusCode = Some(resp.status)]

getErrorFromResult(resp, result) ==
    IF NoFirstError(result)
    THEN Threw(NewError("Error", <<"Expected at least one error from Expo">>))
    ELSE LET errorData == Head(result.errors[1].items)
             otherErrorData == Tail(result.errors[1].items)
             error == getErrorFromResultError(errorData).value
             mapped == [i \in 1..Len(otherErrorData) |->
                            getErrorFromResultError(otherErrorData[i])]
         IN  IF \E i \in 1..Len(mapped) : mapped[i].threw
             THEN Threw(PropertyOfNull("message"))
             ELSE Returned(WithStatusCode(
                      IF Len(otherErrorData) # 0
                      THEN [error EXCEPT
                                !.others = Some([i \in 1..Len(mapped) |-> mapped[i].value])]
                      ELSE error,
                      resp))

(***************************************************************************)
(* Expo.getTextResponseErrorAsync                                          *)
(***************************************************************************)
getTextResponseErrorAsync(resp, text) ==
    [WithStatusCode(
         NewError("Error", <<"Expo responded with an error with status code ",
                             ToString(resp.status), ": ", text>>),
         resp)
     EXCEPT !.errorText = Some(text)]

(***************************************************************************)
(* Expo.parseErrorResponseAsync                                            *)
(***************************************************************************)
\* !result.errors || !Array.isArray(result.errors) || !result.errors.length
NoErrorsList(result) ==
    \/ ~Truthy(result.errors)
    \/ ~IsArray(result.errors)
    \/ Len(result.errors[1].items) = 0

parseErrorResponseAsync(resp) ==
    LET textBody == TextOf(resp.body)
        result == resp.body.json
    IN  IF ~resp.body.parses
        THEN Returned(getTextResponseErrorAsync(resp, textBody))
        ELSE IF result.type = "null"
        THEN Threw(PropertyOfNull("errors"))
        ELSE IF NoErrorsList(result)
        THEN Returned([getTextResponseErrorAsync(resp, textBody) EXCEPT
                           !.errorData = Some(result)])
        ELSE getErrorFromResult(resp, result)

(***************************************************************************)
(* Expo.requestAsync, from the answer of fetch on                          *)
(***************************************************************************)
\* if (result.errors)
HasErrors_error_ticket(result) ==
    \/ Truthy(result.errors)
    \/ /\ IsArray(result.data)
       /\ \E i \in 1..Len(result.data[1].items) : result.data[1].items[i].status = "error"

HasErrors(result) == Truthy(result.errors)

requestAsync(resp) ==
    IF ~resp.fetched
    THEN Threw(FetchFailed)
    ELSE IF resp.status # 200
    THEN Threw(parseErrorResponseAsync(resp).value)
    ELSE IF ~resp.body.parses
    THEN Threw(getTextResponseErrorAsync(resp, TextOf(resp.body)))
    ELSE IF resp.body.json.type = "null"
    THEN Threw(PropertyOfNull("errors"))
    ELSE IF HasErrors(resp.body.json)
    THEN Threw(getErrorFromResult(resp, resp.body.json).value)
    ELSE Returned(resp.body.json.data)

(***************************************************************************)
(* Expo.constructor: the limiter promiseLimit(maxConcurrentRequests) of    *)
(* one client instance.  It holds the count of the units it is running and *)
(* the queue of the units that wait.                                       *)
(***************************************************************************)
\* options.maxConcurrentRequests != null ? ... : DEFAULT_CONCURRENT_REQUEST_LIMIT
ConcurrencyOf_default_only(maxConcurrentRequests) == DEFAULT_CONCURRENT_REQUEST_LIMIT

ConcurrencyOf(maxConcurrentRequests) ==
    IF maxConcurrentRequests # Undefined
    THEN maxConcurrentRequests[1]
    ELSE DEFAULT_CONCURRENT_REQUEST_LIMIT

\* the limiter runs a waiting unit only while activeCount < concurrency
HasCapacity(active, limit) == active < limit

\* the limiter takes the unit that has waited longest (the order is the
\* library's; the client states none)
Dequeue_newest(q) == [unit |-> q[Len(q)], rest |-> SubSeq(q, 1, Len(q) - 1)]

Dequeue(q) == [unit |-> Head(q), rest |-> Tail(q)]

(***************************************************************************)
(* Expo.sendPushNotificationsAsync                                         *)
(***************************************************************************)
\* shouldRetry: (error) => error.statusCode === 429
shouldRetry_any_status(error) == error.statusCode # Undefined

shouldRetry_server_errors(error) == error.statusCode \in {Some(429), Some(500)}

shouldRetry(error) == error.statusCode = Some(429)

\* promiseRetry makes another attempt after a failed one while the attempts
\* made are at most REQUEST_RETRY_OPTIONS.retries
RetriesLeft_shared(made) ==
    \A j \in DOMAIN attempts : attempts[j] <= REQUEST_RETRY_OPTIONS_retries

RetriesLeft_one_more(made) == made <= REQUEST_RETRY_OPTIONS_retries + 1

RetriesLeft(made) == made <= REQUEST_RETRY_OPTIONS_retries

\* promiseRetry runs inside the thunk given to limitConcurrentRequests: a unit
\* that waits for its next attempt still counts as running
ActiveDuringBackoff_released(active) == active - 1

ActiveDuringBackoff(active) == active

\* Array.isArray(data) && data.length === actualMessagesCount
IsExpectedData_at_most(data, actualMessagesCount) ==
    IsArray(data) /\ Len(data[1].items) <= actualMessagesCount

IsExpectedData(data, actualMessagesCount) ==
    IsArray(data) /\ Len(data[1].items) = actualMessagesCount

\* the error of lines 89-95; reading data.length throws when data is undefined
\* or null, and gives undefined when data is an object
CountMismatch(data, actualMessagesCount) ==
    IF ~Truthy(data)
    THEN PropertyOfNull("length")
    ELSE [NewError("Error",
                   <<"Expected Expo to respond with ", ToString(actualMessagesCount), " ",
                     IF actualMessagesCount = 1 THEN "ticket" ELSE "tickets",
                     " but got ",
                     IF IsArray(data) THEN ToString(Len(data[1].items)) ELSE "undefined">>)
          EXCEPT !.data = data]

\* lines 88-98: what the call gives for the payload data of requestAsync
CheckData(data, actualMessagesCount) ==
    IF IsExpectedData(data, actualMessagesCount)
    THEN Returned(data)
    ELSE Threw(CountMismatch(data, actualMessagesCount))

Calls == 1..NumCalls

\* the sequence q without the unit u
Without(q, u) == LET Other(x) == x # u IN SelectSeq(q, Other)

\* a unit leaves the limiter: activeCount--, and the unit that has waited
\* longest, if any, is run at once
Release_leaked(k, how) ==
    /\ pc' = [pc EXCEPT ![k] = how]
    /\ UNCHANGED <<activeCount, queue, attempts, waiting>>

Release(k, how) ==
    IF queue # <<>>
    THEN LET d == Dequeue(queue)
         IN  /\ queue' = d.rest
             /\ activeCount' = activeCount - 1 + 1
             /\ pc' = [pc EXCEPT ![k] = how, ![d.unit] = "fetching"]
             /\ attempts' = [attempts EXCEPT ![d.unit] = 1]
             /\ waiting' = Without(waiting, d.unit)
    ELSE /\ activeCount' = activeCount - 1
         /\ pc' = [pc EXCEPT ![k] = how]
         /\ UNCHANGED <<queue, attempts, waiting>>

\* sendPushNotificationsAsync(msgs) is called: the unit is handed to the limiter
Send(k, msgs) ==
    /\ pc[k] = "idle"
    /\ pc' = [pc EXCEPT ![k] = "queued"]
    /\ callMessages' = [callMessages EXCEPT ![k] = msgs]
    /\ queue' = Append(queue, k)
    /\ waiting' = Append(waiting, k)
    /\ UNCHANGED <<options, concurrency, activeCount, attempts, lastResponse, callResult>>

\* the limiter's check after a submission: a waiting unit is run, and its first
\* attempt calls fetch
Admit ==
    /\ queue # <<>>
    /\ HasCapacity(activeCount, concurrency)
    /\ LET d == Dequeue(queue)
       IN  /\ queue' = d.rest
           /\ activeCount' = activeCount + 1
           /\ pc' = [pc EXCEPT ![d.unit] = "fetching"]
           /\ attempts' = [attempts EXCEPT ![d.unit] = 1]
           /\ waiting' = Without(waiting, d.unit)
    /\ UNCHANGED <<options, concurrency, callMessages, lastResponse, callResult>>

\* fetch settles with r and requestAsync returns: the unit ends, and the call
\* returns the payload or throws the count mismatch
Succeed(k, r) ==
    /\ pc[k] = "fetching"
    /\ ~requestAsync(r).threw
    /\ LET res == CheckData(requestAsync(r).value, _getActualMessageCount(callMessages[k]))
       IN  /\ Release(k, IF res.threw THEN "thrown" ELSE "returned")
           /\ callResult' = [callResult EXCEPT ![k] = Some(res)]
    /\ lastResponse' = [lastResponse EXCEPT ![k] = Some(r)]
    /\ UNCHANGED <<options, concurrency, callMessages>>

\* fetch settles with r and requestAsync throws an error that is retried: the
\* unit waits for its next attempt
Backoff(k, r) ==
    /\ pc[k] = "fetching"
    /\ requestAsync(r).threw
    /\ shouldRetry(requestAsync(r).value)
    /\ RetriesLeft(attempts[k])
    /\ pc' = [pc EXCEPT ![k] = "backoff"]
    /\ activeCount' = ActiveDuringBackoff(activeCount)
    /\ lastResponse' = [lastResponse EXCEPT ![k] = Some(r)]
    /\ UNCHANGED <<options, concurrency, queue, callMessages, attempts, callResult, waiting>>

\* fetch settles with r and requestAsync throws an error that is not retried:
\* the unit ends and the call throws the error
Fail(k, r) ==
    /\ pc[k] = "fetching"
    /\ requestAsync(r).threw
    /\ ~(shouldRetry(requestAsync(r).value) /\ RetriesLeft(attempts[k]))
    /\ Release(k, "thrown")
    /\ callResult' = [callResult EXCEPT ![k] = Some(Threw(requestAsync(r).value))]
    /\ lastResponse' = [lastResponse EXCEPT ![k] = Some(r)]
    /\ UNCHANGED <<options, concurrency, callMessages>>

\* the wait of promiseRetry ends: the next attempt calls fetch
Retry(k) ==
    /\ pc[k] = "backoff"
    /\ pc' = [pc EXCEPT ![k] = "fetching"]
    /\ attempts' = [attempts EXCEPT ![k] = @ + 1]
    /\ UNCHANGED <<options, concurrency, activeCount, queue, callMessages, lastResponse, callResult,
                   waiting>>

(***************************************************************************)
(* The caller of a pending send call gives up: its timeout fires, or it    *)
(* aborts.  sendPushNotificationsAsync takes no signal, requestAsync calls *)
(* fetch without one (lines 218-222) and neither promiseRetry nor the      *)
(* limiter is given one (lines 70-86): no step of the client follows, and  *)
(* the unit goes on as before.                                             *)
(***************************************************************************)
Abort(k) ==
    /\ pc[k] \in {"queued", "fetching", "backoff"}
    /\ k \notin aborted
    /\ aborted' = aborted \cup {k}
    /\ UNCHANGED <<chunkVars, requestVars, receiptVars, sendVars>>

(***************************************************************************)
(* Expo.getPushNotificationReceiptsAsync.  The receipt ids only make the   *)
(* body of the request; no branch of the client reads them.                *)
(***************************************************************************)
\* line 104 calls this.requestAsync itself, not through limitConcurrentRequests:
\* nothing is tested before the transport call
ReceiptsMayStart_limited(active, limit) == HasCapacity(active, limit)

ReceiptsMayStart(active, limit) == TRUE

\* !data || typeof data !== 'object' || Array.isArray(data)
IsReceiptMap(data) == Truthy(data) /\ data[1].type = "object"

\* lines 112-120: what the call gives for the payload data of requestAsync
CheckReceipts(data) ==
    IF IsReceiptMap(data)
    THEN Returned(data)
    ELSE Threw([NewError("Error",
                         <<"Expected Expo to respond with a map from receipt IDs to receipts ",
                           "but received data of another type">>)
                EXCEPT !.data = data])

\* getPushNotificationReceiptsAsync(receiptIds) is called: requestAsync calls fetch
GetReceipts ==
    /\ receiptPc = "idle"
    /\ ReceiptsMayStart(activeCount, concurrency)
    /\ receiptPc' = "fetching"
    /\ receiptFetches' = receiptFetches + 1
    /\ UNCHANGED <<receiptResult, chunkVars, requestVars, sendVars, aborted>>

\* fetch settles with r: the call throws what requestAsync throws, or checks
\* the payload and returns it
ReceiptsSettle(r) ==
    /\ receiptPc = "fetching"
    /\ LET res == IF requestAsync(r).threw
                  THEN Threw(requestAsync(r).value)
                  ELSE CheckReceipts(requestAsync(r).value)
       IN  /\ receiptResult' = Some(res)
           /\ receiptPc' = IF res.threw THEN "thrown" ELSE "returned"
    /\ UNCHANGED <<receiptFetches, chunkVars, requestVars, sendVars, aborted>>

ReceiptsIdle ==
    /\ receiptPc = "off"
    /\ receiptFetches = 0
    /\ receiptResult = Undefined

RequestIdle ==
    /\ response = FetchRejected
    /\ outcome = Returned(Undefined)
    /\ requestPc = "off"

SendIdle ==
    /\ options = Undefined
    /\ concurrency = ConcurrencyOf(options)
    /\ activeCount = 0
    /\ queue = <<>>
    /\ pc = [k \in Calls |-> "off"]
    /\ callMessages = [k \in Calls |-> <<>>]
    /\ attempts = [k \in Calls |-> 0]
    /\ lastResponse = [k \in Calls |-> Undefined]
    /\ callResult = [k \in Calls |-> Undefined]
    /\ waiting = <<>>
    /\ aborted = {}

(***************************************************************************)
(* Inputs of chunkPushNotifications: lists of at most MaxMsgs messages.    *)
(* A message is a scalar recipient or a list whose length lies around the  *)
(* chunk limit; token <<i, j>> is recipient j of message i, and message i  *)
(* has title i.                                                            *)
(***************************************************************************)
ToLengths ==
    {0, 1, 2,
     PUSH_NOTIFICATION_CHUNK_LIMIT - 1, PUSH_NOTIFICATION_CHUNK_LIMIT,
     PUSH_NOTIFICATION_CHUNK_LIMIT + 1, 2 * PUSH_NOTIFICATION_CHUNK_LIMIT,
     2 * PUSH_NOTIFICATION_CHUNK_LIMIT + 1}

ToShapes == {[isArray |-> FALSE, n |-> 1]} \cup {[isArray |-> TRUE, n |-> n] : n \in ToLengths}

MessageOf(i, shape) ==
    [title |-> i,
     to |-> IF shape.isArray
            THEN ListTo([j \in 1..shape.n |-> <<i, j>>])
            ELSE ScalarTo(<<i, 1>>)]

ChunkInputs ==
    UNION {{[i \in 1..n |-> MessageOf(i, f[i])] : f \in [1..n -> ToShapes]} : n \in 0..MaxMsgs}

(***************************************************************************)
(* SpecChunk                                                               *)
(***************************************************************************)
ChunkIdle ==
    /\ messages = <<>>
    /\ chunks = <<>>
    /\ chunkPc = "off"

InitChunk ==
    /\ messages \in ChunkInputs
    /\ chunks = <<>>
    /\ chunkPc = "input"
    /\ RequestIdle
    /\ SendIdle
    /\ ReceiptsIdle

Chunk ==
    /\ chunkPc = "input"
    /\ chunks' = chunkPushNotifications(messages)
    /\ chunkPc' = "done"
    /\ UNCHANGED <<messages, requestVars, sendVars, receiptVars, aborted>>

NextChunk == Chunk

SpecChunk == InitChunk /\ [][NextChunk]_vars

(***************************************************************************)
(* SpecRequest                                                             *)
(***************************************************************************)
InitRequest ==
    /\ response \in Responses
    /\ outcome = Returned(Undefined)
    /\ requestPc = "input"
    /\ ChunkIdle
    /\ SendIdle
    /\ ReceiptsIdle

Request ==
    /\ requestPc = "input"
    /\ outcome' = requestAsync(response)
    /\ requestPc' = "done"
    /\ UNCHANGED <<response, chunkVars, sendVars, receiptVars, aborted>>

NextRequest == Request

SpecRequest == InitRequest /\ [][NextRequest]_vars

(***************************************************************************)
(* Inputs of sendPushNotificationsAsync                                    *)
(***************************************************************************)
ScalarShape == [isArray |-> FALSE, n |-> 1]

ListShape(n) == [isArray |-> TRUE, n |-> n]

MessagesOf(shapes) == [i \in 1..Len(shapes) |-> MessageOf(i, shapes[i])]

SendInputs ==
    {MessagesOf(<<>>), MessagesOf(<<ScalarShape>>), MessagesOf(<<ListShape(2)>>),
     MessagesOf(<<ScalarShape, ListShape(2)>>), MessagesOf(<<ListShape(0)>>)}

\* the responses a send call is checked with: a body with a data field has no
\* errors field, and a body with an errors field has no data field
SendResponses ==
    {r \in Responses :
        \/ r.body.json.errors = Undefined
        \/ /\ r.body.json.data = Undefined
           /\ IsArray(r.body.json.errors)
           /\ \A i \in 1..Len(r.body.json.errors[1].items) :
                  r.body.json.errors[1].items[i].type # "null"}

OkTicket == [status |-> "ok", id |-> Some("r1"), message |-> Undefined, error |-> Undefined]

\* the responses concurrent send calls are checked with: a transport failure,
\* the expected ticket, no data, a rate limit and a server error
ConcurrentInputs == {MessagesOf(<<ScalarShape>>)}

ConcurrentResponses ==
    {FetchRejected,
     [fetched |-> TRUE, status |-> 200,
      body |-> [parses |-> TRUE,
                json |-> JsonBody("object", Undefined, Some(JsonArray(<<OkTicket>>)))]],
     [fetched |-> TRUE, status |-> 200,
      body |-> [parses |-> TRUE, json |-> JsonBody("object", Undefined, Undefined)]],
     [fetched |-> TRUE, status |-> 429,
      body |-> [parses |-> TRUE,
                json |-> JsonBody("object",
                                  Some(JsonArray(<<ErrorEntry("rate", "Y", Some("d"), Some("s"))>>)),
                                  Undefined)]],
     [fetched |-> TRUE, status |-> 500,
      body |-> [parses |-> FALSE, json |-> JsonBody("text", Undefined, Undefined)]]}

\* options.maxConcurrentRequests
MaxConcurrentRequestsChoices == {Undefined, Some(1), Some(2)}

(***************************************************************************)
(* Spec: NumCalls concurrent calls of sendPushNotificationsAsync on one    *)
(* client instance.  SpecSend: one call, with every response.              *)
(***************************************************************************)
SendInit ==
    /\ options \in MaxConcurrentRequestsChoices
    /\ concurrency = ConcurrencyOf(options)
    /\ activeCount = 0
    /\ queue = <<>>
    /\ pc = [k \in Calls |-> "idle"]
    /\ callMessages = [k \in Calls |-> <<>>]
    /\ attempts = [k \in Calls |-> 0]
    /\ lastResponse = [k \in Calls |-> Undefined]
    /\ callResult = [k \in Calls |-> Undefined]
    /\ waiting = <<>>
    /\ aborted = {}

Init ==
    /\ SendInit
    /\ ChunkIdle
    /\ RequestIdle
    /\ ReceiptsIdle

Next ==
    \/ \E k \in Calls, msgs \in ConcurrentInputs : Send(k, msgs) /\ UNCHANGED otherVars
    \/ Admit /\ UNCHANGED otherVars
    \/ \E k \in Calls, r \in ConcurrentResponses : Succeed(k, r) /\ UNCHANGED otherVars
    \/ \E k \in Calls, r \in ConcurrentResponses : Backoff(k, r) /\ UNCHANGED otherVars
    \/ \E k \in Calls, r \in ConcurrentResponses : Fail(k, r) /\ UNCHANGED otherVars
    \/ \E k \in Calls : Retry(k) /\ UNCHANGED otherVars

Spec == Init /\ [][Next]_vars

NextSend ==
    \/ \E msgs \in SendInputs : Send(1, msgs) /\ UNCHANGED otherVars
    \/ Admit /\ UNCHANGED otherVars
    \/ \E r \in SendResponses : Succeed(1, r) /\ UNCHANGED otherVars
    \/ \E r \in SendResponses : Backoff(1, r) /\ UNCHANGED otherVars
    \/ \E r \in SendResponses : Fail(1, r) /\ UNCHANGED otherVars
    \/ Retry(1) /\ UNCHANGED otherVars

SpecSend == Init /\ [][NextSend]_vars

(***************************************************************************)
(* SpecReceipts: a call of getPushNotificationReceiptsAsync beside         *)
(* NumCalls send calls on the same client instance.                        *)
(***************************************************************************)
\* what the send calls are answered with: the expected ticket or a rate limit
RateLimitResponses ==
    {r \in ConcurrentResponses : r.fetched /\ (IsArray(r.body.json.data) \/ r.status = 429)}

\* what the receipts call is answered with: a transport failure, a map, a list,
\* a rate limit and a server error
ReceiptResponses ==
    (ConcurrentResponses \ {r \in ConcurrentResponses : r.fetched /\ r.status = 200})
        \cup {[fetched |-> TRUE, status |-> 200,
               body |-> [parses |-> TRUE, json |-> JsonBody("object", Undefined, d)]] :
                   d \in {Some(JsonObject), Some(JsonArray(<<>>))}}

InitReceipts ==
    /\ SendInit
    /\ ChunkIdle
    /\ RequestIdle
    /\ receiptPc = "idle"
    /\ receiptFetches = 0
    /\ receiptResult = Undefined

NextReceipts ==
    \/ \E k \in Calls, msgs \in ConcurrentInputs : Send(k, msgs) /\ UNCHANGED otherVars
    \/ Admit /\ UNCHANGED otherVars
    \/ \E k \in Calls, r \in RateLimitResponses : Succeed(k, r) /\ UNCHANGED otherVars
    \/ \E k \in Calls, r \in RateLimitResponses : Backoff(k, r) /\ UNCHANGED otherVars
    \/ \E k \in Calls, r \in RateLimitResponses : Fail(k, r) /\ UNCHANGED otherVars
    \/ \E k \in Calls : Retry(k) /\ UNCHANGED otherVars
    \/ GetReceipts
    \/ \E r \in ReceiptResponses : ReceiptsSettle(r)

SpecReceipts == InitReceipts /\ [][NextReceipts]_vars

(***************************************************************************)
(* FairSpec: NumCalls concurrent send calls with the scheduling of the     *)
(* client.  The limiter's check of its queue is a queued microtask, the    *)
(* wait of promiseRetry is a timer that fires, and every transport call is *)
(* taken to settle.  Nothing makes a caller issue a call.                  *)
(***************************************************************************)
\* the answers that end a unit in each way: the expected ticket, a rate limit
\* and a server error
ExitResponses ==
    {r \in ConcurrentResponses : r.fetched /\ (IsArray(r.body.json.data) \/ r.status # 200)}

AdmitStep == Admit /\ UNCHANGED otherVars

SettleStep(k) ==
    \E r \in ExitResponses :
        (Succeed(k, r) \/ Backoff(k, r) \/ Fail(k, r)) /\ UNCHANGED otherVars

RetryStep(k) == Retry(k) /\ UNCHANGED otherVars

Fairness ==
    /\ WF_vars(AdmitStep)
    /\ \A k \in Calls : WF_vars(SettleStep(k))
    /\ \A k \in Calls : WF_vars(RetryStep(k))

NextFair ==
    \/ \E k \in Calls, msgs \in ConcurrentInputs : Send(k, msgs) /\ UNCHANGED otherVars
    \/ Admit /\ UNCHANGED otherVars
    \/ \E k \in Calls, r \in ExitResponses : Succeed(k, r) /\ UNCHANGED otherVars
    \/ \E k \in Calls, r \in ExitResponses : Backoff(k, r) /\ UNCHANGED otherVars
    \/ \E k \in Calls, r \in ExitResponses : Fail(k, r) /\ UNCHANGED otherVars
    \/ \E k \in Calls : Retry(k) /\ UNCHANGED otherVars

FairSpec == Init /\ [][NextFair]_vars /\ Fairness

(***************************************************************************)
(* SpecAbort: NumCalls send calls whose callers may give up                *)
(***************************************************************************)
NextAbort ==
    \/ \E k \in Calls, msgs \in ConcurrentInputs : Send(k, msgs) /\ UNCHANGED otherVars
    \/ Admit /\ UNCHANGED otherVars
    \/ \E k \in Calls, r \in RateLimitResponses : Succeed(k, r) /\ UNCHANGED otherVars
    \/ \E k \in Calls, r \in RateLimitResponses : Backoff(k, r) /\ UNCHANGED otherVars
    \/ \E k \in Calls, r \in RateLimitResponses : Fail(k, r) /\ UNCHANGED otherVars
    \/ \E k \in Calls : Retry(k) /\ UNCHANGED otherVars
    \/ \E k \in Calls : Abort(k)

SpecAbort == Init /\ [][NextAbort]_vars

(***************************************************************************)
(* Recipients of a message list and of a list of chunks                    *)
(***************************************************************************)
Recipients(msgs) == Flatten([i \in 1..Len(msgs) |-> msgs[i].to.tokens])

ChunkRecipients(cs) == Flatten([b \in 1..Len(cs) |-> Recipients(cs[b])])

\* C1: chunkPushNotifications loses, duplicates and reorders no recipient: the
\* recipients of the chunks, concatenated in output order, are the recipients of
\* the input in input order, and the two recipient counts are equal.
C1_RecipientsPreserved ==
    chunkPc = "done" =>
        /\ ChunkRecipients(chunks) = Recipients(messages)
        /\ SumSeq([b \in 1..Len(chunks) |-> _getActualMessageCount(chunks[b])])
               = _getActualMessageCount(messages)

\* C1 witness: a list recipient longer than the limit, after another message,
\* has been chunked into several chunks.
C1_Witness ==
    /\ chunkPc = "done"
    /\ Len(chunks) >= 3
    /\ Len(messages) >= 2
    /\ \E i \in 1..Len(messages) :
           /\ IsArrayTo(messages[i])
           /\ Len(messages[i].to.tokens) > PUSH_NOTIFICATION_CHUNK_LIMIT

\* the fragments of input message i (the messages titled i) in a chunk
FragmentsIn(chunk, i) == LET IsFragment(m) == m.title = i IN SelectSeq(chunk, IsFragment)

ChunksHolding(cs, i) == {b \in 1..Len(cs) : FragmentsIn(cs[b], i) # <<>>}

FragmentTokens(cs, i) == Flatten([b \in 1..Len(cs) |-> Recipients(FragmentsIn(cs[b], i))])

\* C2: every chunk holds at most 100 recipients, and a message with more than
\* 100 recipients is split across consecutive chunks that together hold all of
\* its recipients, in order.
C2_ChunkWithinLimit ==
    chunkPc = "done" =>
        /\ \A b \in 1..Len(chunks) : Len(Recipients(chunks[b])) <= 100
        /\ \A i \in 1..Len(messages) :
               (IsArrayTo(messages[i]) /\ Len(messages[i].to.tokens) > 100) =>
                   LET bs == ChunksHolding(chunks, i)
                   IN  /\ Cardinality(bs) >= 2
                       /\ \A b1 \in bs, b2 \in bs : \A b \in b1..b2 : b \in bs
                       /\ FragmentTokens(chunks, i) = messages[i].to.tokens

\* C2 witness: a message with more than 100 recipients follows a scalar one, and
\* a chunk that mixes the two messages is filled to exactly 100 recipients.
C2_Witness ==
    /\ chunkPc = "done"
    /\ \E i \in 1..Len(messages) : Len(messages[i].to.tokens) > 100
    /\ \E b \in 1..Len(chunks) :
           /\ Len(Recipients(chunks[b])) = 100
           /\ Len(chunks[b]) >= 2
           /\ \E m \in 1..Len(chunks[b]) : ~IsArrayTo(chunks[b][m])

(***************************************************************************)
(* Claims about sendPushNotificationsAsync and the limiter                 *)
(***************************************************************************)
Finished(k) == pc[k] \in {"returned", "thrown"}

\* the units the limiter is running: in a transport call or between attempts
Admitted == {k \in Calls : pc[k] \in {"fetching", "backoff"}}

InFlight == {k \in Calls : pc[k] = "fetching"}

\* the limit C the client instance was configured with (6 when none is given)
ConfiguredLimit == IF options = Undefined THEN 6 ELSE options[1]

\* the recipients of the argument of a call: a scalar counts 1, a list its length
RecipientCount(msgs) == Len(Recipients(msgs))

C4_InFlightWithinLimit == Cardinality(InFlight) <= ConfiguredLimit

\* C4 witness: with C = 2, two units are in a transport call and a third waits.
C4_Witness ==
    /\ options = Some(2)
    /\ Cardinality(InFlight) = 2
    /\ Len(queue) = 1

\* C5: a call makes at most 3 transport calls; a failed attempt is followed by
\* a wait for another attempt only if its error has status code 429 and fewer
\* than 2 retries were made; an error with another status code or with none
\* ends the call with that error, and no attempt starts but the first one of an
\* admitted unit and the one after a wait.
C5_RetryOnlyOn429 ==
    /\ [](\A k \in Calls : attempts[k] <= 3)
    /\ [][\A k \in Calls :
              /\ (pc[k] = "fetching" /\ pc'[k] # "fetching") =>
                     LET o == requestAsync(lastResponse'[k][1])
                     IN  /\ pc'[k] = "backoff" =>
                                (o.threw /\ o.value.statusCode = Some(429) /\ attempts[k] - 1 < 2)
                         /\ (o.threw /\ o.value.statusCode # Some(429)) =>
                                /\ pc'[k] = "thrown"
                                /\ callResult'[k] = Some(Threw(o.value))
                                /\ attempts'[k] = attempts[k]
              /\ attempts'[k] # attempts[k] =>
                     \/ pc[k] = "queued" /\ attempts'[k] = 1
                     \/ pc[k] = "backoff" /\ attempts'[k] = attempts[k] + 1
         ]_vars

\* C5 witness: a call threw a status 429 error after 3 attempts.
C5_Witness ==
    /\ pc[1] = "thrown"
    /\ attempts[1] = 3
    /\ callResult[1][1].value.statusCode = Some(429)

\* C6: a waiting unit starts only as the one that was submitted first among the
\* waiting units, and, when C units are executing, only in a step in which an
\* executing unit finishes.
C6_FifoStart ==
    [][\A k \in Calls :
           (pc[k] = "queued" /\ pc'[k] = "fetching") =>
               /\ Head(waiting) = k
               /\ Cardinality(Admitted) >= ConfiguredLimit =>
                      \E j \in Calls : pc[j] = "fetching" /\ Finished(j)'
      ]_vars

\* C6 witness: with C = 1, one unit has finished, a unit that waited runs and
\* another unit still waits.
C6_Witness ==
    /\ options = Some(1)
    /\ \E k \in Calls : Finished(k)
    /\ \E j \in Calls : pc[j] = "fetching"
    /\ Len(waiting) = 1

\* C7: the units admitted and not finished (in a transport call or in a wait
\* between attempts) are the units the limiter counts, at most C; a unit that
\* waits for its next attempt is not in the queue, and its next attempt starts
\* with the queue and the count of the limiter unchanged.
C7_RetryKeepsSlot ==
    /\ [](/\ Cardinality(Admitted) <= ConfiguredLimit
          /\ Cardinality(Admitted) = activeCount
          /\ \A k \in Calls :
                 pc[k] = "backoff" => \A i \in 1..Len(queue) : queue[i] # k)
    /\ [][\A k \in Calls :
              pc[k] = "backoff" =>
                  /\ pc'[k] \in {"backoff", "fetching"}
                  /\ pc'[k] = "fetching" =>
                         (queue' = queue /\ waiting' = waiting /\ activeCount' = activeCount)
         ]_vars

\* C7 witness: with C = 1, a unit waits for its third attempt while another
\* unit is in the queue.
C7_Witness ==
    /\ options = Some(1)
    /\ \E k \in Calls : pc[k] = "backoff" /\ attempts[k] = 2
    /\ queue # <<>>

\* C8: when requestAsync returns a payload that is not a list, or a list of
\* another length than the recipient count, the call throws the count-mismatch
\* error, which carries the payload in its data field.
C8_MismatchError ==
    \A k \in Calls :
        Finished(k) =>
            LET o == requestAsync(lastResponse[k][1])
            IN  (/\ ~o.threw
                 /\ ~(IsArray(o.value) /\ Len(o.value[1].items) = RecipientCount(callMessages[k])))
                    => /\ pc[k] = "thrown"
                       /\ callResult[k][1].threw
                       /\ callResult[k][1].value.name = "Error"
                       /\ Head(callResult[k][1].value.message) = "Expected Expo to respond with "
                       /\ callResult[k][1].value.data = o.value

(***************************************************************************)
(* Claims about requestAsync                                               *)
(***************************************************************************)
HasDataField(resp) == resp.body.parses /\ resp.body.json.data # Undefined

HasNonEmptyErrorsList(resp) ==
    /\ resp.body.parses
    /\ IsArray(resp.body.json.errors)
    /\ Len(resp.body.json.errors[1].items) > 0

\* C9: requestAsync returns only for a status 200 response whose JSON body has a
\* data field; for a status 200 JSON body with neither a data field nor a
\* non-empty errors list it throws an error that carries the status code.
C9_NeverSwallows ==
    requestPc = "done" =>
        /\ ~outcome.threw => (response.fetched /\ response.status = 200 /\ HasDataField(response))
        /\ (/\ response.fetched
            /\ response.status = 200
            /\ response.body.parses
            /\ ~HasDataField(response)
            /\ ~HasNonEmptyErrorsList(response))
               => (outcome.threw /\ outcome.value.statusCode = Some(200))

\* C10: for a response whose status is not 200, requestAsync throws an error
\* whose statusCode is the status: the error of the first entry when the errors
\* list is not empty, otherwise the error made of the response text.
C10_StatusCodeOnEveryError ==
    (requestPc = "done" /\ response.fetched /\ response.status # 200) =>
        /\ outcome.threw
        /\ outcome.value.statusCode = Some(response.status)
        /\ IF HasNonEmptyErrorsList(response)
           THEN outcome.value.message = <<response.body.json.errors[1].items[1].message>>
           ELSE outcome.value.errorText = Some(TextOf(response.body))

\* the error the provider's entry e stands for: its message, code, details
\* and stack
IsErrorOfEntry(error, e) ==
    /\ error.message = <<e.message>>
    /\ error.code = Some(e.code)
    /\ error.details = e.details
    /\ error.serverStack = e.stack

\* C11: when the response body carries an errors list of n >= 1 entries, at any
\* status, requestAsync throws an error with the message, code, details and
\* stack of the first entry and the status code of the response; its others
\* field is absent when n = 1 and otherwise lists the errors of the remaining
\* n - 1 entries in the order of the response.
C11_FirstErrorWithSiblings ==
    (requestPc = "done" /\ response.fetched /\ HasNonEmptyErrorsList(response)) =>
        LET es == response.body.json.errors[1].items
        IN  /\ outcome.threw
            /\ IsErrorOfEntry(outcome.value, es[1])
            /\ outcome.value.statusCode = Some(response.status)
            /\ IF Len(es) = 1
               THEN outcome.value.others = Undefined
               ELSE /\ outcome.value.others # Undefined
                    /\ Len(outcome.value.others[1]) = Len(es) - 1
                    /\ \A i \in 1..(Len(es) - 1) :
                           IsErrorOfEntry(outcome.value.others[1][i], es[i + 1])

(***************************************************************************)
(* Claims about the outcome of a send call                                 *)
(***************************************************************************)
\* a status 200 response whose JSON body has no errors and a data list of n
\* tickets
IsTicketList(r, n) ==
    /\ r.fetched
    /\ r.status = 200
    /\ r.body.parses
    /\ r.body.json.type = "object"
    /\ ~Truthy(r.body.json.errors)
    /\ IsArray(r.body.json.data)
    /\ Len(r.body.json.data[1].items) = n

TicketStatuses(data) == {data[1].items[i].status : i \in 1..Len(data[1].items)}

\* C12: an attempt that is answered with status 200 and a data list with one
\* ticket per recipient ends the call with that list returned, whatever the
\* statuses of the tickets: the call does not throw and makes no other attempt.
C12_ErrorTicketsReturned ==
    [][\A k \in Calls :
           (/\ pc[k] = "fetching"
            /\ pc'[k] # "fetching"
            /\ IsTicketList(lastResponse'[k][1], RecipientCount(callMessages[k])))
               => /\ pc'[k] = "returned"
                  /\ callResult'[k] = Some(Returned(lastResponse'[k][1].body.json.data))
                  /\ attempts'[k] = attempts[k]
      ]_vars

\* C12 witness: a call for three recipients returned three tickets that are all
\* of status 'error'.
C12_Witness ==
    /\ pc[1] = "returned"
    /\ RecipientCount(callMessages[1]) = 3
    /\ Len(callResult[1][1].value[1].items) = 3
    /\ TicketStatuses(callResult[1][1].value) = {"error"}

(***************************************************************************)
(* Claims about getPushNotificationReceiptsAsync                           *)
(***************************************************************************)
\* C13: a call of getPushNotificationReceiptsAsync makes exactly one transport
\* call, whatever answers it; it can start whenever it is called, however many
\* send units the limiter is running; and its steps leave the limiter alone,
\* whose count stays the number of send units admitted and not finished.
C13_ReceiptsUnlimited ==
    /\ [](/\ receiptFetches = IF receiptPc = "idle" THEN 0 ELSE 1
          /\ receiptPc = "idle" => ENABLED GetReceipts
          /\ activeCount = Cardinality(Admitted))
    /\ [][/\ receiptPc' # receiptPc =>
                 (activeCount' = activeCount /\ queue' = queue /\ waiting' = waiting)
          /\ receiptPc \in {"returned", "thrown"} => receiptPc' = receiptPc
         ]_vars

\* C13 witness: with the limiter full and a send unit waiting, the receipts
\* call was answered with status 429 and ended after its one transport call.
C13_Witness ==
    /\ activeCount = ConfiguredLimit
    /\ queue # <<>>
    /\ receiptPc = "thrown"
    /\ receiptResult[1].value.statusCode = Some(429)
    /\ receiptFetches = 1

\* a protocol violation for a call that expects n tickets: the body is not
\* JSON, or the status 200 body without errors has no list of n tickets as data
IsProtocolViolation(r, n) ==
    /\ r.fetched
    /\ \/ ~r.body.parses
       \/ /\ r.status = 200
          /\ r.body.json.type = "object"
          /\ ~Truthy(r.body.json.errors)
          /\ ~(IsArray(r.body.json.data) /\ Len(r.body.json.data[1].items) = n)

\* C14: an attempt that ends in a protocol violation, at any response status,
\* ends the call with an error: the call does not wait for another attempt and
\* makes no other transport call.
C14_ProtocolViolationFatal ==
    [][\A k \in Calls :
           (/\ pc[k] = "fetching"
            /\ pc'[k] # "fetching"
            /\ IsProtocolViolation(lastResponse'[k][1], RecipientCount(callMessages[k])))
               => /\ pc'[k] = "thrown"
                  /\ attempts'[k] = attempts[k]
      ]_vars

\* C14 as amended: at a response status other than 429 an attempt that ends in
\* a protocol violation ends the call with an error and no other transport call
\* is made; a body that is not JSON under status 429 is a rate limit, after
\* which the call waits for another attempt while it has retries left.
C14_ViolationFatalUnless429 ==
    [][\A k \in Calls :
           (/\ pc[k] = "fetching"
            /\ pc'[k] # "fetching"
            /\ IsProtocolViolation(lastResponse'[k][1], RecipientCount(callMessages[k])))
               => IF lastResponse'[k][1].status = 429
                  THEN /\ pc'[k] = IF attempts[k] <= 2 THEN "backoff" ELSE "thrown"
                       /\ attempts'[k] = attempts[k]
                  ELSE /\ pc'[k] = "thrown"
                       /\ attempts'[k] = attempts[k]
      ]_vars

\* C14 witness: the second attempt of a call was answered with status 500 and a
\* body that is not JSON, and the call threw.
C14_Witness ==
    /\ pc[1] = "thrown"
    /\ attempts[1] = 2
    /\ lastResponse[1][1].status = 500
    /\ ~lastResponse[1][1].body.parses

\* C15: the third attempt of a call ends the call; an attempt that fails with
\* status 429 when no retry is left, or with another error, ends the call with
\* the error of that attempt; an attempt that succeeds ends the call with the
\* payload of that attempt, and then the call throws no status 429 error of an
\* earlier attempt.
C15_LastAttemptDecides ==
    [][\A k \in Calls :
           (pc[k] = "fetching" /\ pc'[k] # "fetching") =>
               LET o == requestAsync(lastResponse'[k][1])
                   n == RecipientCount(callMessages[k])
               IN  /\ attempts[k] = 3 => Finished(k)'
                   /\ (o.threw /\ o.value.statusCode # Some(429)) => Finished(k)'
                   /\ (o.threw /\ Finished(k)') =>
                          /\ pc'[k] = "thrown"
                          /\ callResult'[k] = Some(Threw(o.value))
                   /\ ~o.threw =>
                          /\ Finished(k)'
                          /\ callResult'[k][1].threw =>
                                 callResult'[k][1].value.statusCode = Undefined
                          /\ (IsArray(o.value) /\ Len(o.value[1].items) = n) =>
                                 callResult'[k] = Some(Returned(o.value))
      ]_vars

\* C15 witness: the three attempts of a call were answered with status 429, and
\* the call threw the error of the errors list of the third answer.
C15_Witness ==
    /\ pc[1] = "thrown"
    /\ attempts[1] = 3
    /\ lastResponse[1][1].status = 429
    /\ HasNonEmptyErrorsList(lastResponse[1][1])
    /\ callResult[1][1].value.code = Some("Y")
    /\ callResult[1][1].value.statusCode = Some(429)

\* C16: the attempt count of a call changes only by that call's own start,
\* which sets it to 1 whatever the other calls have done, and by that call's
\* own retry, which adds 1; and a call whose attempt fails with status 429
\* after at most 2 attempts waits for another attempt, however many attempts
\* the other calls have made.
C16_RetryStateLocal ==
    [][\A k \in Calls :
           /\ attempts'[k] # attempts[k] =>
                  \/ pc[k] = "queued" /\ pc'[k] = "fetching" /\ attempts'[k] = 1
                  \/ pc[k] = "backoff" /\ pc'[k] = "fetching"
                         /\ attempts'[k] = attempts[k] + 1
           /\ (pc'[k] # pc[k] /\ pc[k] \in {"fetching", "backoff"}) =>
                  \A j \in Calls \ {k} :
                      \/ attempts'[j] = attempts[j]
                      \/ pc[j] = "queued" /\ attempts'[j] = 1
           /\ (/\ pc[k] = "fetching"
               /\ pc'[k] # "fetching"
               /\ requestAsync(lastResponse'[k][1]).threw
               /\ requestAsync(lastResponse'[k][1]).value.statusCode = Some(429)
               /\ attempts[k] <= 2)
                  => pc'[k] = "backoff"
      ]_vars

\* C16 witness: one call has thrown after its 3 attempts, a second call waits
\* for its second attempt, and a third call, started later, is in its first.
C16_Witness ==
    \E k \in Calls, j \in Calls, l \in Calls :
        /\ pc[k] = "thrown" /\ attempts[k] = 3
        /\ pc[j] = "backoff" /\ attempts[j] = 1
        /\ pc[l] = "fetching" /\ attempts[l] = 1

\* C17: a send call whose caller has given up (timeout or abort) has no
\* transport call in flight and no pending backoff wait: it holds no slot of
\* the limiter, so that a waiting unit can start in its place.
C17_AbortReleasesSlot ==
    \A k \in aborted : pc[k] \notin {"fetching", "backoff"}

\* C18: a unit that ends, by a return, by an error that is not retried or by
\* its third failed attempt, gives its slot back: the limiter's count stays the
\* number of units admitted and not finished.  No call makes more than 3
\* transport calls, and, every transport call settling, from some point on no
\* unit waits in the queue, is in a transport call or waits for an attempt:
\* every call handed to the limiter has started and has finished.
C18_NoSlotLeak ==
    /\ [](/\ activeCount = Cardinality(Admitted)
          /\ \A k \in Calls : attempts[k] <= 3)
    /\ [][\A k \in Calls :
              (pc[k] = "fetching" /\ Finished(k)') =>
                  \/ activeCount' = activeCount - 1 /\ queue = <<>>
                  \/ /\ activeCount' = activeCount
                     /\ queue # <<>>
                     /\ pc'[Head(queue)] = "fetching"
         ]_vars
    /\ <>[](\A k \in Calls : pc[k] \notin {"queued", "fetching", "backoff"})

\* C18 witness: with C = 1 every call has finished, one by a return, one by a
\* status 429 error after 3 attempts and one by a status 500 error, and the
\* limiter runs nothing.
C18_Witness ==
    /\ options = Some(1)
    /\ activeCount = 0
    /\ queue = <<>>
    /\ \A k \in Calls : Finished(k)
    /\ \E k \in Calls : pc[k] = "returned"
    /\ \E k \in Calls :
           /\ pc[k] = "thrown"
           /\ attempts[k] = 3
           /\ callResult[k][1].value.statusCode = Some(429)
    /\ \E k \in Calls :
           /\ pc[k] = "thrown"
           /\ callResult[k][1].value.statusCode = Some(500)

(***************************************************************************)
(* Claims about the messages and the sizes of the chunks                   *)
(***************************************************************************)
\* the messages of all chunks, in output order
ChunkMessages(cs) == Flatten(cs)

\* slice is a non-empty run of consecutive elements of list (the elements of
\* list are distinct)
IsSliceOf(slice, list) ==
    /\ slice # <<>>
    /\ \E a \in 1..Len(list) :
           /\ list[a] = slice[1]
           /\ a + Len(slice) - 1 <= Len(list)
           /\ slice = SubSeq(list, a, a + Len(slice) - 1)

\* C19: every message of a chunk comes from one input message, whose fields
\* other than the recipient it has: it is an input message with a scalar
\* recipient itself, and no other output message comes from that input, or it
\* has as recipient a non-empty run of consecutive recipients of an input
\* message with a list recipient; the input messages are what they were
\* (message i has title i and its recipients are <<i, 1>>, <<i, 2>>, ...).
C19_FragmentsKeepFields ==
    chunkPc = "done" =>
        LET out == ChunkMessages(chunks)
        IN  /\ \A p \in 1..Len(out) :
                   \E i \in 1..Len(messages) :
                       /\ DOMAIN out[p] = DOMAIN messages[i]
                       /\ out[p].title = messages[i].title
                       /\ IF IsArrayTo(messages[i])
                          THEN /\ IsArrayTo(out[p])
                               /\ IsSliceOf(out[p].to.tokens, messages[i].to.tokens)
                          ELSE /\ out[p] = messages[i]
                               /\ \A q \in 1..Len(out) :
                                      out[q].title = messages[i].title => q = p
            /\ \A i \in 1..Len(messages) :
                   /\ messages[i].title = i
                   /\ \A j \in 1..Len(messages[i].to.tokens) :
                          messages[i].to.tokens[j] = <<i, j>>

\* C19 witness: the output holds a message with a scalar recipient and three
\* fragments of one message with a list recipient.
C19_Witness ==
    /\ chunkPc = "done"
    /\ \E i \in 1..Len(messages), j \in 1..Len(messages) :
           /\ ~IsArrayTo(messages[i])
           /\ ChunksHolding(chunks, i) # {}
           /\ IsArrayTo(messages[j])
           /\ Cardinality(ChunksHolding(chunks, j)) = 3

\* the recipient count of a chunk
ChunkCount(chunk) == Len(Recipients(chunk))

\* C20: every chunk but the last holds exactly 100 recipients, no chunk is
\* empty, no message of a chunk has an empty recipient list (an input message
\* with an empty list is in no chunk), and the number of chunks is the total
\* recipient count divided by 100, rounded up: none for no recipient.
C20_GreedyPacking ==
    chunkPc = "done" =>
        LET total == Len(Recipients(messages))
        IN  /\ \A b \in 1..(Len(chunks) - 1) : ChunkCount(chunks[b]) = 100
            /\ \A b \in 1..Len(chunks) :
                   /\ chunks[b] # <<>>
                   /\ ChunkCount(chunks[b]) >= 1
                   /\ \A p \in 1..Len(chunks[b]) : chunks[b][p].to.tokens # <<>>
            /\ \A i \in 1..Len(messages) :
                   messages[i].to.tokens = <<>> => ChunksHolding(chunks, i) = {}
            /\ Len(chunks) = (total + 99) \div 100
            /\ total = 0 => chunks = <<>>

\* C20 witness: an input with a message whose recipient list is empty was
\* chunked into three chunks, the last one holding fewer than 100 recipients.
C20_Witness ==
    /\ chunkPc = "done"
    /\ \E i \in 1..Len(messages) : IsArrayTo(messages[i]) /\ messages[i].to.tokens = <<>>
    /\ Len(chunks) = 3
    /\ ChunkCount(chunks[3]) < 100

=============================================================================
